---- MODULE Spec2Model ----
(***************************************************************************)
(* Chrome Remote Desktop provisioning script (src/code.py).                *)
(*                                                                         *)
(* The script prompts for an activation token, validates the token and the *)
(* configured PIN, requires superuser privileges and then runs a fixed     *)
(* sequence of shell commands through run_command.  The model keeps one    *)
(* program counter (pc, the method being executed, and ip, the command of  *)
(* that method that is next), the commands handed to run_command so far,   *)
(* the steps in which run_command returned False, the last run_command     *)
(* call with its result, what was printed, the last terminal log message   *)
(* and the process exit code.                                              *)
(***************************************************************************)
EXTENDS Integers, Sequences, FiniteSets, TLC

VARIABLES pc, ip, entry, CRD_SSH_Code, Pin, euid, invoked, failed, last,
          stdout, lastlog, exitcode, visited

vars == <<pc, ip, entry, CRD_SSH_Code, Pin, euid, invoked, failed, last,
          stdout, lastlog, exitcode, visited>>

---------------------------------------------------------------------------
(* Bounds of the model *)

\* longest line the operator types at the prompt
MaxTokenLen == 2

---------------------------------------------------------------------------
(* Inputs *)

\* characters of a typed line: a blank and a non-blank one
Chars == {" ", "c"}

Whitespace == {" "}

\* every line of at most MaxTokenLen characters
Tokens == UNION {[1..n -> Chars] : n \in 0..MaxTokenLen}

\* a typed line that is empty or holds blanks only
IsBlank(t) == \A i \in DOMAIN t : t[i] = " "

\* values of the configured PIN (the source sets Pin = 123456 on line 55;
\* the others are values that configuration line can be given): both sides
\* of the six-character boundary, the value of the end-to-end scenario, and
\* a negative value whose sign counts as a character
PinValues == {0, -1234, 99999, 100000, 123456, 482913}

\* effective user ids: root and an ordinary user
Uids == {0, 1000}

\* what the operating system does with a command: it exits zero, it exits
\* non-zero, or it cannot be executed at all (subprocess.run raises OSError)
Outcomes == {"zero", "nonzero", "oserror"}

\* exit code of a process that has not ended
Running == 0 - 1

username == "user"

password == "root"

---------------------------------------------------------------------------
(* Pure functions *)

RECURSIVE lstrip(_)
lstrip(s) ==
    IF s # <<>> /\ Head(s) \in Whitespace THEN lstrip(Tail(s)) ELSE s

RECURSIVE rstrip(_)
rstrip(s) ==
    IF s # <<>> /\ s[Len(s)] \in Whitespace
    THEN rstrip(SubSeq(s, 1, Len(s) - 1))
    ELSE s

\* str.strip()
strip(s) == rstrip(lstrip(s))

RECURSIVE Digits(_)
Digits(n) == IF n < 10 THEN 1 ELSE 1 + Digits(n \div 10)

\* len(str(n)) of an integer: its digits, and the sign of a negative one
StrLen(n) == IF n < 0 THEN 1 + Digits(0 - n) ELSE Digits(n)

\* line 14: not CRD_SSH_Code or CRD_SSH_Code.strip() == ""
TokenInvalid(code) == code = <<>> \/ strip(code) = <<>>

\* line 18: len(str(Pin)) < 6
PinInvalid(pin) == StrLen(pin) < 6

validate_inputs_token_unchecked(code, pin) == ~PinInvalid(pin)

validate_inputs_pin_unchecked(code, pin) == ~TokenInvalid(code)

validate_inputs(code, pin) ==
    IF TokenInvalid(code) THEN FALSE
    ELSE IF PinInvalid(pin) THEN FALSE
    ELSE TRUE

\* the error validate_inputs logs before it returns False
validate_error(code, pin) ==
    IF TokenInvalid(code)
    THEN "Please enter a valid Chrome Remote Desktop SSH code"
    ELSE "PIN must be at least 6 digits"

\* subprocess.run(command, check=check_result): the exception it raises, or
\* "completed" with the return code
subprocess_run(outcome, check_result) ==
    IF outcome = "oserror" THEN [raises |-> "OSError", returncode |-> 0]
    ELSE IF outcome = "nonzero" /\ check_result
         THEN [raises |-> "CalledProcessError", returncode |-> 1]
         ELSE [raises |-> "none",
               returncode |-> IF outcome = "zero" THEN 0 ELSE 1]

run_command_no_catch_all(outcome, check_result) ==
    LET r == subprocess_run(outcome, check_result)
    IN  IF r.raises = "none"
        THEN [raised |-> FALSE,
              value |-> ~(r.returncode # 0 /\ check_result)]
        ELSE IF r.raises = "CalledProcessError"
             THEN [raised |-> FALSE, value |-> FALSE]
             ELSE [raised |-> TRUE, value |-> FALSE]

\* run_command: value is the boolean it returns; raised tells whether an
\* exception left it instead (both except clauses return False)
run_command(outcome, check_result) ==
    LET r == subprocess_run(outcome, check_result)
    IN  IF r.raises = "none"
        THEN [raised |-> FALSE,
              value |-> ~(r.returncode # 0 /\ check_result)]
        ELSE IF r.raises = "CalledProcessError"
             THEN [raised |-> FALSE, value |-> FALSE]
             ELSE [raised |-> FALSE, value |-> FALSE]

---------------------------------------------------------------------------
(* The commands of each step *)

Cmd(step, text, check_result) ==
    [step |-> step, cmd |-> text, check |-> check_result,
     code |-> <<>>, pin |-> 0]

update_system_cmds == << Cmd("update_system", "apt update", TRUE) >>

setup_user_cmds ==
    << Cmd("setup_user", "id user || useradd -m user", FALSE),
       Cmd("setup_user", "usermod -aG sudo user", TRUE),
       Cmd("setup_user", "echo 'user:root' | chpasswd", TRUE),
       Cmd("setup_user", "sed -i /etc/passwd", TRUE) >>

install_crd_cmds ==
    << Cmd("install_crd", "wget chrome-remote-desktop_current_amd64.deb", FALSE),
       Cmd("install_crd", "dpkg -i chrome-remote-desktop_current_amd64.deb", FALSE),
       Cmd("install_crd", "apt install -f -y", FALSE) >>

install_desktop_environment_cmds ==
    << Cmd("install_desktop_environment", "apt install -y xfce4 desktop-base xfce4-terminal", FALSE),
       Cmd("install_desktop_environment", "apt install -y xscreensaver dbus-x11", FALSE),
       Cmd("install_desktop_environment", "apt remove -y gnome-terminal", FALSE),
       Cmd("install_desktop_environment", "service lightdm stop", FALSE),
       Cmd("install_desktop_environment", "service dbus start", FALSE),
       Cmd("install_desktop_environment", "echo exec xfce4-session > /etc/chrome-remote-desktop-session", FALSE) >>

install_google_chrome_cmds ==
    << Cmd("install_google_chrome", "wget google-chrome-stable_current_amd64.deb", FALSE),
       Cmd("install_google_chrome", "dpkg -i google-chrome-stable_current_amd64.deb", FALSE),
       Cmd("install_google_chrome", "apt install -f -y", FALSE) >>

install_python_cmds ==
    << Cmd("install_python", "apt install -y python3 python3-pip", FALSE) >>

install_selenium_webdriver_cmds ==
    << Cmd("install_selenium_webdriver", "pip3 install selenium", FALSE),
       Cmd("install_selenium_webdriver", "apt install -y chromium-chromedriver", FALSE) >>

install_qbittorrent_cmds ==
    << Cmd("install_qbittorrent", "apt install -y qbittorrent", FALSE) >>

change_wallpaper_cmds ==
    << Cmd("change_wallpaper", "mkdir -p wallpaper_dir", FALSE),
       Cmd("change_wallpaper", "curl 3200x2000.svg", FALSE),
       Cmd("change_wallpaper", "curl 3840x2160.svg", FALSE),
       Cmd("change_wallpaper", "curl 5120x2880.svg", FALSE) >>

finish_cmds_service_first(code, pin) ==
    << Cmd("finish", "systemctl start chrome-remote-desktop", FALSE),
       Cmd("finish", "usermod -aG chrome-remote-desktop user", FALSE),
       [step |-> "finish", cmd |-> "su - user -c", check |-> FALSE,
        code |-> code, pin |-> pin] >>

\* the second command is su - user -c '<CRD_SSH_Code> --pin=<Pin>'
finish_cmds(code, pin) ==
    << Cmd("finish", "usermod -aG chrome-remote-desktop user", FALSE),
       [step |-> "finish", cmd |-> "su - user -c", check |-> FALSE,
        code |-> code, pin |-> pin],
       Cmd("finish", "systemctl start chrome-remote-desktop", FALSE) >>

\* the lines finish prints that carry connection details
summary(pin) ==
    << <<"PIN", pin, "">>, <<"Username", 0, username>>,
       <<"Password", 0, password>> >>

Line(text) == <<text, 0, "">>

---------------------------------------------------------------------------
(* Control flow of CRDSetup.__init__ and main *)

\* what a step method returns: install_crd and install_desktop_environment
\* end with "return True" whatever run_command returned inside them; the
\* other methods return None
StepReturn(step, anyFailed) ==
    IF step \in {"install_crd", "install_desktop_environment"}
    THEN "True"
    ELSE "None"

\* Python truth value of a returned value
Truthy(v) == v = "True"

InitNext_every_step_checked(step, ret) ==
    IF ~Truthy(ret) THEN "return"
    ELSE CASE step = "update_system" -> "setup_user"
           [] step = "setup_user" -> "install_crd"
           [] step = "install_crd" -> "install_desktop_environment"
           [] step = "install_desktop_environment" -> "install_google_chrome"
           [] step = "install_google_chrome" -> "install_python"
           [] step = "install_python" -> "install_selenium_webdriver"
           [] step = "install_selenium_webdriver" -> "install_qbittorrent"
           [] step = "install_qbittorrent" -> "change_wallpaper"
           [] step = "change_wallpaper" -> "finish"

\* where __init__ goes when a step method has returned ret: only the
\* returns of install_crd and install_desktop_environment are tested
InitNext(step, ret) ==
    CASE step = "update_system" -> "setup_user"
      [] step = "setup_user" -> "install_crd"
      [] step = "install_crd" ->
            IF ~Truthy(ret) THEN "return" ELSE "install_desktop_environment"
      [] step = "install_desktop_environment" ->
            IF ~Truthy(ret) THEN "return" ELSE "install_google_chrome"
      [] step = "install_google_chrome" -> "install_python"
      [] step = "install_python" -> "install_selenium_webdriver"
      [] step = "install_selenium_webdriver" -> "install_qbittorrent"
      [] step = "install_qbittorrent" -> "change_wallpaper"
      [] step = "change_wallpaper" -> "finish"

IsRoot_any_uid(uid) == TRUE

\* line 251: os.geteuid() != 0 aborts
IsRoot(uid) == uid = 0

ExitCode_not_root_zero(site) ==
    IF site \in {"return", "not_root"} THEN 0 ELSE 1

ExitCode_prompt_cancel_zero(site) ==
    IF site \in {"return", "prompt_cancel"} THEN 0 ELSE 1

\* the exit code at each place the process ends: sys.exit(1) at the prompt
\* interrupt, on invalid input, without privilege, on an interrupt or an
\* exception inside main; 1 for an uncaught exception; 0 when main returns
ExitCode(site) ==
    CASE site = "prompt_cancel" -> 1
      [] site = "uncaught" -> 1
      [] site = "invalid" -> 1
      [] site = "not_root" -> 1
      [] site = "setup_cancel" -> 1
      [] site = "exception" -> 1
      [] site = "return" -> 0

---------------------------------------------------------------------------
(* State machine *)

Steps ==
    << "update_system", "setup_user", "install_crd",
       "install_desktop_environment", "install_google_chrome",
       "install_python", "install_selenium_webdriver",
       "install_qbittorrent", "change_wallpaper", "finish" >>

StepSet == {Steps[i] : i \in DOMAIN Steps}

\* the positions inside the try block of main
MainTry == {"main"} \cup StepSet \cup {"summary"}

\* no run_command call has been made
NoCall == [outcome |-> "none", check |-> FALSE, value |-> TRUE,
           raised |-> FALSE]

Init ==
    /\ pc = "prompt"
    /\ ip = 1
    /\ entry = "unread"
    /\ CRD_SSH_Code = <<>>
    /\ Pin \in PinValues
    /\ euid \in Uids
    /\ invoked = <<>>
    /\ failed = {}
    /\ last = NoCall
    /\ stdout = <<>>
    /\ lastlog = ""
    /\ exitcode = Running
    /\ visited = {"prompt"}

Goto(p) == pc' = p /\ visited' = visited \cup {p}

\* the process ends at site with a last message
Exit(site, msg) ==
    /\ Goto("exited")
    /\ exitcode' = ExitCode(site)
    /\ lastlog' = msg

\* CRD_SSH_Code = input(...).strip(): the operator types a line; entry
\* remembers whether the line held anything but blanks
Prompt ==
    /\ pc = "prompt"
    /\ \E typed \in Tokens :
         /\ CRD_SSH_Code' = strip(typed)
         /\ entry' = IF IsBlank(typed) THEN "blank" ELSE "text"
    /\ Goto("validate")
    /\ UNCHANGED <<ip, Pin, euid, invoked, failed, last, stdout,
                   lastlog, exitcode>>

\* the operator interrupts the prompt: the handler prints and exits
KeyboardInterruptPrompt ==
    /\ pc = "prompt"
    /\ stdout' = Append(stdout, Line("Operation cancelled by user"))
    /\ Exit("prompt_cancel", "Operation cancelled by user")
    /\ UNCHANGED <<ip, entry, CRD_SSH_Code, Pin, euid, invoked, failed, last>>

\* standard input is closed: input() raises EOFError, which nothing catches
InputEOF ==
    /\ pc = "prompt"
    /\ Exit("uncaught", "Traceback: EOFError")
    /\ UNCHANGED <<ip, entry, CRD_SSH_Code, Pin, euid, invoked, failed, last,
                   stdout>>

\* if not validate_inputs(): sys.exit(1)
Validate ==
    /\ pc = "validate"
    /\ IF validate_inputs(CRD_SSH_Code, Pin)
       THEN Goto("main") /\ UNCHANGED <<exitcode, lastlog>>
       ELSE Exit("invalid", validate_error(CRD_SSH_Code, Pin))
    /\ UNCHANGED <<ip, entry, CRD_SSH_Code, Pin, euid, invoked, failed, last,
                   stdout>>

\* main: the privilege check, then CRDSetup(username)
main ==
    /\ pc = "main"
    /\ IF IsRoot(euid)
       THEN Goto("update_system") /\ UNCHANGED <<exitcode, lastlog>>
       ELSE Exit("not_root", "This script must be run as root")
    /\ UNCHANGED <<ip, entry, CRD_SSH_Code, Pin, euid, invoked, failed, last,
                   stdout>>

\* where control goes when the last command of a step has returned
After(step, anyFailed) ==
    IF step = "finish" THEN "summary"
    ELSE InitNext(step, StepReturn(step, anyFailed))

\* one run_command call of a step method; after the last one the method
\* returns and __init__ goes on, or returns and main ends
RunStep(step, cmds) ==
    /\ pc = step
    /\ \E o \in Outcomes :
         LET c == cmds[ip]
             r == run_command(o, c.check)
             nowFailed == IF r.value THEN failed ELSE failed \cup {step}
             after == After(step, step \in nowFailed)
         IN  /\ invoked' = Append(invoked, c)
             /\ last' = [outcome |-> o, check |-> c.check,
                         value |-> r.value, raised |-> r.raised]
             /\ IF r.raised
                THEN /\ Exit("exception", "An unexpected error occurred")
                     /\ UNCHANGED <<ip, failed>>
                ELSE /\ failed' = nowFailed
                     /\ IF ip < Len(cmds)
                        THEN /\ ip' = ip + 1
                             /\ UNCHANGED <<pc, visited, exitcode, lastlog>>
                        ELSE /\ ip' = 1
                             /\ IF after = "return"
                                THEN Exit("return", "Failed to install")
                                ELSE /\ Goto(after)
                                     /\ UNCHANGED <<exitcode, lastlog>>
    /\ UNCHANGED <<entry, CRD_SSH_Code, Pin, euid, stdout>>

update_system == RunStep("update_system", update_system_cmds)

setup_user == RunStep("setup_user", setup_user_cmds)

install_crd == RunStep("install_crd", install_crd_cmds)

install_desktop_environment ==
    RunStep("install_desktop_environment", install_desktop_environment_cmds)

install_google_chrome ==
    RunStep("install_google_chrome", install_google_chrome_cmds)

install_python == RunStep("install_python", install_python_cmds)

install_selenium_webdriver ==
    RunStep("install_selenium_webdriver", install_selenium_webdriver_cmds)

install_qbittorrent == RunStep("install_qbittorrent", install_qbittorrent_cmds)

change_wallpaper == RunStep("change_wallpaper", change_wallpaper_cmds)

\* the three commands of finish
finish == RunStep("finish", finish_cmds(CRD_SSH_Code, Pin))

\* finish prints the connection details, then enters the idle loop
print_summary ==
    /\ pc = "summary"
    /\ stdout' = stdout \o summary(Pin)
    /\ Goto("idle")
    /\ UNCHANGED <<ip, entry, CRD_SSH_Code, Pin, euid, invoked, failed, last,
                   lastlog, exitcode>>

\* while True: time.sleep(1): an iteration changes nothing
idle_wait ==
    /\ pc = "idle"
    /\ UNCHANGED vars

\* the operator interrupts the setup (a blocking subprocess, or the code
\* between two of them): main catches it and exits
KeyboardInterruptSetup ==
    /\ pc \in MainTry
    /\ Exit("setup_cancel", "Setup cancelled by user")
    /\ UNCHANGED <<ip, entry, CRD_SSH_Code, Pin, euid, invoked, failed, last,
                   stdout>>

\* the operator interrupts the idle loop: finish catches it, prints and
\* returns, and so do __init__ and main
KeyboardInterruptIdle ==
    /\ pc = "idle"
    /\ stdout' = Append(stdout, Line("Exiting..."))
    /\ Exit("return", "Script terminated by user")
    /\ UNCHANGED <<ip, entry, CRD_SSH_Code, Pin, euid, invoked, failed, last>>

\* the steps the interpreter takes by itself once the prompt has returned
Program ==
    \/ Validate
    \/ main
    \/ update_system
    \/ setup_user
    \/ install_crd
    \/ install_desktop_environment
    \/ install_google_chrome
    \/ install_python
    \/ install_selenium_webdriver
    \/ install_qbittorrent
    \/ change_wallpaper
    \/ finish
    \/ print_summary
    \/ idle_wait

\* what the operator does
Operator ==
    \/ Prompt
    \/ KeyboardInterruptPrompt
    \/ InputEOF
    \/ KeyboardInterruptSetup
    \/ KeyboardInterruptIdle

Next == Program \/ Operator

Spec == Init /\ [][Next]_vars

\* the interpreter runs the script to its end unless the process ends
FairSpec == Spec /\ WF_vars(Program)

---------------------------------------------------------------------------
(* Vocabulary of the properties *)

\* a PIN whose decimal representation has fewer than six characters
IsShortPin(p) == p > 0 - 10000 /\ p < 100000

StepIndex(s) == CHOOSE i \in DOMAIN Steps : Steps[i] = s

\* the steps that come after s in the fixed order
StepsAfter(s) == {Steps[j] : j \in (StepIndex(s) + 1)..Len(Steps)}

\* some command of step s has been handed to run_command
Ran(s) == \E i \in DOMAIN invoked : invoked[i].step = s

\* the steps the specification calls best-effort
BestEffort == StepSet \ {"install_crd", "install_desktop_environment"}

\* every command of the pipeline, in the fixed order
AllCommands ==
    update_system_cmds \o setup_user_cmds \o install_crd_cmds
    \o install_desktop_environment_cmds \o install_google_chrome_cmds
    \o install_python_cmds \o install_selenium_webdriver_cmds
    \o install_qbittorrent_cmds \o change_wallpaper_cmds
    \o finish_cmds(CRD_SSH_Code, Pin)

\* the operator interrupted the setup
Interrupted == lastlog = "Setup cancelled by user"

Printed(line) == \E i \in DOMAIN stdout : stdout[i] = line

SummaryPrinted ==
    \E i \in DOMAIN stdout :
        /\ i + 2 \in DOMAIN stdout
        /\ stdout[i] = <<"PIN", Pin, "">>
        /\ stdout[i + 1] = <<"Username", 0, "user">>
        /\ stdout[i + 2] = <<"Password", 0, "root">>

---------------------------------------------------------------------------
(* Properties *)

\* C1: when a command of install_crd has returned failure, no command of a
\* later step (desktop environment, browser, runtime, automation tooling,
\* download manager, wallpaper, finalize) is ever invoked.
C1_CrdFailureStopsPipeline ==
    "install_crd" \in failed =>
        \A s \in StepsAfter("install_crd") : ~Ran(s)

\* C2: when a command of install_desktop_environment has returned failure,
\* no command of a later step (browser, runtime, automation tooling,
\* download manager, wallpaper, finalize) is ever invoked.
C2_DesktopFailureStopsPipeline ==
    "install_desktop_environment" \in failed =>
        \A s \in StepsAfter("install_desktop_environment") : ~Ran(s)

\* C3: with an empty or whitespace-only token no command is ever handed to
\* run_command, no pipeline step is entered, and the process ends with
\* exit code 1, whatever the PIN and the privilege level.
C3_BlankTokenAborts ==
    entry = "blank" =>
        /\ invoked = <<>>
        /\ pc \notin MainTry \cup {"idle"}
        /\ pc = "exited" => exitcode = 1

C3_Witness ==
    /\ pc = "exited"
    /\ entry = "blank"
    /\ Pin = 482913
    /\ euid = 0
    /\ "validate" \in visited
    /\ exitcode = 1

\* C4: with a PIN of fewer than six characters no command is ever handed
\* to run_command and the process ends with exit code 1, even with a valid
\* token and as superuser.
C4_ShortPinAborts ==
    IsShortPin(Pin) =>
        /\ invoked = <<>>
        /\ pc \notin MainTry \cup {"idle"}
        /\ pc = "exited" => exitcode = 1

C4_Witness ==
    /\ pc = "exited"
    /\ Pin = 99999
    /\ entry = "text"
    /\ euid = 0
    /\ lastlog = "PIN must be at least 6 digits"
    /\ exitcode = 1

\* C5: without superuser privileges no command is ever handed to
\* run_command, no pipeline step is entered, and the process ends with
\* exit code 1.
C5_NoPrivilegeNoCommand ==
    euid # 0 =>
        /\ invoked = <<>>
        /\ pc \notin StepSet \cup {"summary", "idle"}
        /\ pc = "exited" => exitcode = 1

C5_Witness ==
    /\ pc = "exited"
    /\ euid # 0
    /\ entry = "text"
    /\ ~IsShortPin(Pin)
    /\ "main" \in visited
    /\ exitcode = 1

\* C6: once a command of a best-effort step has returned failure, the
\* pipeline still runs every command of the fixed order and reaches the end
\* of finalize, unless the operator interrupts the setup; no run leaves the
\* setup for any other reason.
C6_BestEffortFailureContinues ==
    /\ (failed \cap BestEffort # {})
          ~> (Interrupted \/ ("idle" \in visited /\ invoked = AllCommands))
    /\ [](pc = "exited" /\ Ran("update_system") =>
             Interrupted \/ "idle" \in visited)

C6_Witness ==
    /\ pc = "idle"
    /\ BestEffort \subseteq failed
    /\ invoked = AllCommands

\* a run that starts with a non-blank token, a PIN of at least six digits
\* and superuser privileges
C7_ValidStart ==
    /\ pc = "validate"
    /\ entry = "text"
    /\ Pin >= 100000
    /\ euid = 0

\* the last three commands were the access-group grant, the agent launch
\* with the token and the PIN, and the service start, and the summary has
\* been printed
C7_Finalized ==
    LET n == Len(invoked)
    IN  /\ n >= 3
        /\ invoked[n - 2].cmd = "usermod -aG chrome-remote-desktop user"
        /\ invoked[n - 1].cmd = "su - user -c"
        /\ invoked[n - 1].code = CRD_SSH_Code
        /\ Head(CRD_SSH_Code) # " "
        /\ CRD_SSH_Code[Len(CRD_SSH_Code)] # " "
        /\ invoked[n - 1].pin = Pin
        /\ invoked[n].cmd = "systemctl start chrome-remote-desktop"
        /\ SummaryPrinted

\* C7: with a non-blank token, a PIN of at least six digits and superuser
\* privileges, validation passes and (unless the operator interrupts the
\* setup) the idle wait is reached; there the last three commands were, in
\* order, the access-group grant, the agent launch with the token and the
\* PIN, and the service start, and the summary with the PIN, the username
\* and the password has been printed; the idle wait is left only by an
\* interrupt.
C7_ValidRunReachesIdle ==
    /\ C7_ValidStart ~> (pc = "main")
    /\ C7_ValidStart ~> (Interrupted \/ pc = "idle")
    /\ [](pc = "idle" => C7_Finalized)
    /\ [](pc \in StepSet \cup {"summary"} => ~SummaryPrinted)
    /\ [][pc = "idle" =>
            pc' = "idle" \/ lastlog' = "Script terminated by user"]_vars

C7_Witness ==
    /\ pc = "idle"
    /\ CRD_SSH_Code = <<"c", "c">>
    /\ Pin = 482913
    /\ SummaryPrinted

\* C8: a process that has ended has exit code 1 after invalid input,
\* without privilege and after an error or interrupt during setup, and exit
\* code 0 exactly when it had reached the idle wait.
C8_ExitCodes ==
    pc = "exited" =>
        /\ exitcode \in {0, 1}
        /\ entry = "blank" \/ IsShortPin(Pin) => exitcode = 1
        /\ euid # 0 => exitcode = 1
        /\ lastlog \in {"Setup cancelled by user",
                        "An unexpected error occurred",
                        "Traceback: EOFError"} => exitcode = 1
        /\ exitcode = 0 <=> "idle" \in visited

C8_Witness ==
    /\ pc = "exited"
    /\ exitcode = 0
    /\ "idle" \in visited

\* C9 as claimed: an interrupt at the token prompt or in the idle wait
\* ends the process with exit code 0.
C9_InterruptExitsZero ==
    pc = "exited"
    /\ lastlog \in {"Operation cancelled by user", "Script terminated by user"}
        => exitcode = 0

\* C9 as amended: an interrupt at the token prompt is caught, prints the
\* cancellation and ends the process with exit code 1 before any command;
\* an interrupt in the idle wait is caught, prints the farewell and ends the
\* process with exit code 0; after either no further command is invoked.
C9_InterruptExitCodes ==
    /\ [](lastlog = "Operation cancelled by user" =>
             /\ pc = "exited"
             /\ exitcode = 1
             /\ invoked = <<>>
             /\ stdout = << <<"Operation cancelled by user", 0, "">> >>)
    /\ [](lastlog = "Script terminated by user" =>
             /\ pc = "exited"
             /\ exitcode = 0
             /\ invoked = AllCommands
             /\ stdout[Len(stdout)] = <<"Exiting...", 0, "">>)
    /\ [][pc = "exited" => invoked' = invoked /\ pc' = "exited"]_vars
    /\ [][pc = "prompt" /\ pc' = "exited" =>
             lastlog' \in {"Operation cancelled by user",
                           "Traceback: EOFError"}]_vars

C9_Witness ==
    /\ pc = "exited"
    /\ lastlog = "Operation cancelled by user"
    /\ exitcode = 1
    /\ entry = "unread"
    /\ Printed(<<"Operation cancelled by user", 0, "">>)

\* C10: run_command never lets an exception out; it returns True exactly
\* when the command exits zero, or exits non-zero with check_result
\* cleared; so with check_result cleared it returns False only for a
\* command that could not be executed.
C10_RunCommandResult ==
    last.outcome # "none" =>
        /\ ~last.raised
        /\ last.value <=> \/ last.outcome = "zero"
                          \/ (last.outcome = "nonzero" /\ ~last.check)
        /\ (~last.check /\ ~last.value) => last.outcome = "oserror"
        /\ pc = "exited" => lastlog # "An unexpected error occurred"

C10_Witness ==
    /\ last.outcome = "nonzero"
    /\ ~last.check
    /\ last.value
    /\ "install_crd" \in visited

====
